---- MODULE Spec2Model ----
(***************************************************************************)
(* Model of salt/count_states.py: the scan that counts the planned salt    *)
(* states by rendering lowstates with salt-call and recursing into the     *)
(* states that run further state.sls modules.                              *)
(*                                                                         *)
(* Text (the serialized pillar, the salt-call argument) is a sequence of   *)
(* one-character strings, so that json.dumps and re.sub are computed       *)
(* character by character as Python computes them.                         *)
(***************************************************************************)
EXTENDS Naturals, Sequences, FiniteSets, TLC

VARIABLES
    stack,      \* the Python call stack, bottom (main) first
    status,     \* "running" | "raising" | "exited" | "traceback" | "idle"
    printed,    \* lines written to standard output by the __main__ block
    renderer,   \* what salt-call has answered so far: command |-> process result
    calls,      \* history: every execute_command call, in order
    returned,   \* history: every count_inner_states call that returned
    ntexts,     \* normalisation experiment: the texts produced so far
    nctx        \* normalisation experiment: the override context

vars == <<stack, status, printed, renderer, calls, returned, ntexts, nctx>>

(***************************************************************************)
(* Bounds of the model.                                                    *)
(***************************************************************************)
\* nested run_lowstate calls allowed on the stack at once
MaxDepth == 3
\* tokens concatenated into one string value of the normalisation experiment
MaxTokens == 3

(***************************************************************************)
(* Characters and text.                                                    *)
(***************************************************************************)
Q == "\""
BS == "\\"

DEV == <<"/", "d", "e", "v", "/">>

(***************************************************************************)
(* JSON values: a string [str |-> chars] or a mapping [map |-> pairs],     *)
(* pairs being <<key chars, value>> in insertion order.                    *)
(***************************************************************************)
Str(s) == [str |-> s]
Map(m) == [map |-> m]
IsStr(v) == "str" \in DOMAIN v

\* pillar={} / pillar = {} / .get("pillar", {})
EmptyPillar == Map(<<>>)

\* json.dumps of a string: quotes and backslashes escaped, wrapped in quotes
RECURSIVE Escape(_)
Escape(s) ==
    IF s = <<>> THEN <<>>
    ELSE (IF Head(s) = Q \/ Head(s) = BS THEN <<BS, Head(s)>> ELSE <<Head(s)>>)
         \o Escape(Tail(s))

DumpsStr(s) == <<Q>> \o Escape(s) \o <<Q>>

\* json.dumps with the default separators ", " and ": "
RECURSIVE Dumps(_)
RECURSIVE DumpsItems(_)
DumpsItems(m) ==
    IF m = <<>> THEN <<>>
    ELSE DumpsStr(m[1][1]) \o <<":", " ">> \o Dumps(m[1][2])
         \o (IF Len(m) > 1 THEN <<",", " ">> ELSE <<>>)
         \o DumpsItems(Tail(m))
Dumps(v) ==
    IF IsStr(v) THEN DumpsStr(v.str)
    ELSE <<"{">> \o DumpsItems(v.map) \o <<"}">>

(***************************************************************************)
(* re.sub('"/dev/.*?"', '"/dev/sda2"', pillar)                             *)
(***************************************************************************)
\* the literal head of the pattern: "/dev/
PATTERN_HEAD == <<Q>> \o DEV
\* the replacement text
PLACEHOLDER == <<Q>> \o DEV \o <<"s", "d", "a", "2">> \o <<Q>>

StartsAt(s, i, p) ==
    /\ i + Len(p) - 1 <= Len(s)
    /\ SubSeq(s, i, i + Len(p) - 1) = p

\* the pattern head without its opening quote
UnquotedHead == DEV

\* the literal head a match must start with
MatchHead == PATTERN_HEAD

\* The end of the match starting at i, 0 when there is none: the head, then
\* as few characters as possible (.*?), then the closing quote.
MatchEnd(s, i) ==
    IF StartsAt(s, i, MatchHead)
    THEN LET ends == {j \in (i + Len(MatchHead))..Len(s) : s[j] = Q}
         IN  IF ends = {} THEN 0
             ELSE CHOOSE j \in ends : \A k \in ends : j <= k
    ELSE 0

\* re.sub: leftmost non-overlapping matches, scanning from position i
RECURSIVE SubFrom(_, _)
SubFrom(s, i) ==
    IF i > Len(s) THEN <<>>
    ELSE LET j == MatchEnd(s, i)
         IN  IF j > 0 THEN PLACEHOLDER \o SubFrom(s, j + 1)
             ELSE <<s[i]>> \o SubFrom(s, i + 1)

ReSub(s) == SubFrom(s, 1)

(***************************************************************************)
(* Fixed configuration of the scan.                                        *)
(***************************************************************************)
LOW_STATES == <<"os_setup">>
SALTENVS == <<"predeployment", "base">>

\* salt-call --local ... state.show_lowstate saltenv={saltenv} --out=json
LOWSTATE_CMD(saltenv) ==
    [fun |-> "state.show_lowstate", state_path |-> "", saltenv |-> saltenv,
     pillar |-> <<>>]

\* salt-call --local ... state.show_low_sls {state_path} saltenv={saltenv}
\* pillar='{pillar}' --out=json
LOWSTATE_SLS_CMD(state_path, saltenv, pillar) ==
    [fun |-> "state.show_low_sls", state_path |-> state_path,
     saltenv |-> saltenv, pillar |-> pillar]

(***************************************************************************)
(* What salt-call can answer: lowstate records, batches, process results.  *)
(* A record is a mapping from field name to value; only "state" and        *)
(* "state.sls" are read by the scan.                                       *)
(***************************************************************************)
Rec(name, state) == ("name" :> name) @@ ("state" :> state)
WithSls(r, sls) == r @@ ("state.sls" :> sls)

\* {"device": "/dev/xvdb"}
P_DEVICE ==
    Map(<<<<<<"d", "e", "v", "i", "c", "e">>, Str(DEV \o <<"x", "v", "d", "b">>)>>>>)
rPlain == Rec("hosts_file", "file")
rGrain == Rec("set_grains", "module")
rSalt == WithSls(Rec("orchestrate", "salt"), <<[mods |-> <<"foo">>]>>)
rInv1 == WithSls(Rec("run_foo", "module"), <<[mods |-> <<"foo">>]>>)
rInvP ==
    WithSls(Rec("run_foo_device", "module"),
            <<[mods |-> <<"foo">>], [pillar |-> P_DEVICE]>>)
rInv2 ==
    WithSls(Rec("run_both", "module"),
            <<[mods |-> <<"foo", "os_setup">>], [test |-> TRUE]>>)

BatchPool ==
    { <<rPlain, rPlain, rGrain, rSalt>>,
      <<rInvP, rPlain>>,
      <<rInvP, rInv1>>,
      <<rInv1, rInvP>>,
      <<rInv2>> }

\* what a failing render printed before it exited 1
PartialBatch == <<rPlain, rGrain, rPlain, rPlain, rPlain>>

\* standard output of the process: JSON text holding doc, or not JSON at all
Json(doc) == [json |-> TRUE, doc |-> doc]
NotJson == [json |-> FALSE, doc |-> <<>>]

ResultPool ==
    {[rc |-> 0, out |-> Json("local" :> b)] : b \in BatchPool}
    \cup {[rc |-> 1, out |-> Json("local" :> PartialBatch)],
          [rc |-> 1, out |-> NotJson],
          [rc |-> 0, out |-> Json("retcode" :> <<>>)]}

(***************************************************************************)
(* The call stack.  Every frame has the same fields; a function uses the   *)
(* ones that are its local variables.                                      *)
(***************************************************************************)
\* text is the local pillar of run_lowstate once lines 52-55 have rebound it to
\* the serialized text.  i, j: the positions of "for state in ..." and "for mod
\* in mods".
\* by, made are history: the state whose mods made this run_lowstate call, and
\* the salt-call commands run for the states of this count_inner_states call.
Frame(fn, pc, state_path, saltenv, pillar, states, by) ==
    [fn |-> fn, pc |-> pc, state_path |-> state_path, saltenv |-> saltenv,
     pillar |-> pillar, text |-> <<>>, states |-> states, state_count |-> 0,
     i |-> 1, j |-> 0, by |-> by, made |-> <<>>]

Top == stack[Len(stack)]
Below == SubSeq(stack, 1, Len(stack) - 1)
Caller == stack[Len(stack) - 1]

Running(fn) == status = "running" /\ stack # <<>> /\ Top.fn = fn

\* run_lowstate frames on the stack
Depth == Cardinality({k \in 1..Len(stack) : stack[k].fn = "run_lowstate"})

Init ==
    /\ stack = <<Frame("main", "loop", "", "", EmptyPillar, <<>>, <<>>)>>
    /\ status = "running"
    /\ printed = <<>>
    /\ renderer = <<>>
    /\ calls = <<>>
    /\ returned = {}
    /\ ntexts = <<>>
    /\ nctx = EmptyPillar

(***************************************************************************)
(* execute_command: run the process, json.loads its standard output.       *)
(***************************************************************************)
\* A module renders alike in both saltenvs; the full lowstate is per saltenv.
SameRender(c, cmd) ==
    /\ c.fun = cmd.fun
    /\ c.state_path = cmd.state_path
    /\ c.pillar = cmd.pillar
    /\ (cmd.fun = "state.show_lowstate" => c.saltenv = cmd.saltenv)

\* the answers the process may give to cmd: the one it gave before, or any
Answers(cmd) ==
    LET before == {c \in DOMAIN renderer : SameRender(c, cmd)}
    IN  IF before # {} THEN {renderer[c] : c \in before} ELSE ResultPool

\* json.loads(out) raises on text that is not JSON
LoadsRaises(res) == ~res.out.json

\* state_data["local"] raises when the key is missing
LocalRaises(res) == "local" \notin DOMAIN res.out.doc

Raises(res) == LoadsRaises(res) \/ LocalRaises(res)

Local(res) == res.out.doc["local"]

\* the bookkeeping of one execute_command call
Executed(cmd, res, pillar, by) ==
    /\ renderer' = (cmd :> res) @@ renderer
    /\ calls' = Append(calls, [cmd |-> cmd, res |-> res, pillar |-> pillar,
                               by |-> by, depth |-> Depth])

(***************************************************************************)
(* run_lowstate                                                            *)
(***************************************************************************)
\* pillar = json.dumps(pillar); pillar = re.sub(...)
Normalized(pillar) == ReSub(Dumps(pillar))

\* lines 51-55: serialize the pillar, replace the device paths
Normalize ==
    /\ Running("run_lowstate")
    /\ Top.pc = "entry"
    /\ stack' = Below \o <<[Top EXCEPT !.text = Normalized(Top.pillar),
                                       !.pc = "render"]>>
    /\ UNCHANGED <<status, printed, renderer, calls, returned, ntexts, nctx>>

\* lines 56-60: render the module, count its states, descend
Render ==
    /\ Running("run_lowstate")
    /\ Top.pc = "render"
    /\ LET cmd == LOWSTATE_SLS_CMD(Top.state_path, Top.saltenv, Top.text)
       IN  \E res \in Answers(cmd) :
             /\ Executed(cmd, res, Top.pillar, Top.by)
             /\ IF Raises(res)
                THEN /\ status' = "raising"
                     /\ stack' = stack
                ELSE /\ status' = status
                     /\ stack' = SubSeq(stack, 1, Len(stack) - 2)
                          \o <<IF Caller.fn = "count_inner_states"
                                THEN [Caller EXCEPT !.made = Append(@, cmd)]
                                ELSE Caller>>
                          \o <<[Top EXCEPT !.pc = "inner",
                                           !.states = Local(res),
                                           !.state_count = Len(Local(res))]>>
                          \o <<Frame("count_inner_states", "loop", "",
                                     Top.saltenv, EmptyPillar, Local(res),
                                     <<>>)>>
    /\ UNCHANGED <<printed, returned, ntexts, nctx>>

\* line 60 written "state_count = ..." instead of "state_count += ..."
ResumeOverwrite(caller, value) ==
    IF caller.fn = "run_lowstate"
    THEN [caller EXCEPT !.state_count = value, !.pc = "ret"]
    ELSE IF caller.fn = "count_inner_states"
    THEN LET mods == caller.states[caller.i]["state.sls"][1].mods
         IN  IF caller.j < Len(mods)
             THEN [caller EXCEPT !.state_count = @ + value, !.j = @ + 1]
             ELSE [caller EXCEPT !.state_count = @ + value, !.j = 0,
                                 !.i = @ + 1]
    ELSE [caller EXCEPT !.state_count = @ + value, !.i = @ + 1]

\* what the caller does with the value a callee returns
Resume(caller, value) ==
    IF caller.fn = "run_lowstate"
    THEN \* line 60: state_count += count_inner_states(...)
         [caller EXCEPT !.state_count = @ + value, !.pc = "ret"]
    ELSE IF caller.fn = "count_inner_states"
    THEN \* line 78: state_count += run_lowstate(...), next mod or next state
         LET mods == caller.states[caller.i]["state.sls"][1].mods
         IN  IF caller.j < Len(mods)
             THEN [caller EXCEPT !.state_count = @ + value, !.j = @ + 1]
             ELSE [caller EXCEPT !.state_count = @ + value, !.j = 0,
                                 !.i = @ + 1]
    ELSE \* main, lines 88 and 95: state_count += ..., next root
         [caller EXCEPT !.state_count = @ + value, !.i = @ + 1]

\* line 61: return state_count
ReturnRunLowstate ==
    /\ Running("run_lowstate")
    /\ Top.pc = "ret"
    /\ stack' = SubSeq(stack, 1, Len(stack) - 2)
                \o <<Resume(Caller, Top.state_count)>>
    /\ UNCHANGED <<status, printed, renderer, calls, returned, ntexts, nctx>>

(***************************************************************************)
(* count_inner_states                                                      *)
(***************************************************************************)
\* line 72 without the test of state["state"]
IsInnerStateKeyOnly(state) == "state.sls" \in DOMAIN state

\* line 72
IsInnerState(state) ==
    "state.sls" \in DOMAIN state /\ state["state"] = "module"

\* lines 75-76: the pillar after looking at state
NextPillar(pillar, state) ==
    IF Len(state["state.sls"]) > 1
    THEN LET second == state["state.sls"][2]
         IN  IF "pillar" \in DOMAIN second THEN second.pillar ELSE EmptyPillar
    ELSE pillar

\* the loop of line 71 not moving on from a state that runs no module
InnerNextStuck ==
    /\ Running("count_inner_states")
    /\ Top.j = 0
    /\ Top.i <= Len(Top.states)
    /\ LET state == Top.states[Top.i]
       IN  stack' = Below \o
             <<IF IsInnerState(state)
               THEN IF state["state.sls"][1].mods = <<>>
                    THEN [Top EXCEPT !.pillar = NextPillar(@, state),
                                     !.i = @ + 1]
                    ELSE [Top EXCEPT !.pillar = NextPillar(@, state),
                                     !.j = 1]
               ELSE Top>>
    /\ UNCHANGED <<status, printed, renderer, calls, returned, ntexts, nctx>>

\* lines 71-76: look at the next state of the batch
InnerNext ==
    /\ Running("count_inner_states")
    /\ Top.j = 0
    /\ Top.i <= Len(Top.states)
    /\ LET state == Top.states[Top.i]
       IN  stack' = Below \o
             <<IF IsInnerState(state)
               THEN IF state["state.sls"][1].mods = <<>>
                    THEN [Top EXCEPT !.pillar = NextPillar(@, state),
                                     !.i = @ + 1]
                    ELSE [Top EXCEPT !.pillar = NextPillar(@, state),
                                     !.j = 1]
               ELSE [Top EXCEPT !.i = @ + 1]>>
    /\ UNCHANGED <<status, printed, renderer, calls, returned, ntexts, nctx>>

\* lines 77-78 with a visited check: a module already being rendered with the
\* same saltenv and pillar is skipped and counts 0
InnerCallVisited ==
    /\ Running("count_inner_states")
    /\ Top.j >= 1
    /\ LET state == Top.states[Top.i]
           mod == state["state.sls"][1].mods[Top.j]
           visited == \E k \in 1..Len(stack) :
                         /\ stack[k].fn = "run_lowstate"
                         /\ stack[k].state_path = mod
                         /\ stack[k].saltenv = Top.saltenv
                         /\ Normalized(stack[k].pillar) = Normalized(Top.pillar)
       IN  IF visited
           THEN stack' = Below \o <<Resume(Top, 0)>>
           ELSE /\ Depth < MaxDepth
                /\ stack' = stack
                     \o <<Frame("run_lowstate", "entry", mod, Top.saltenv,
                                Top.pillar, <<>>, <<state>>)>>
    /\ UNCHANGED <<status, printed, renderer, calls, returned, ntexts, nctx>>

\* lines 77-78: call run_lowstate for the next mod
InnerCall ==
    /\ Running("count_inner_states")
    /\ Top.j >= 1
    /\ Depth < MaxDepth
    /\ LET state == Top.states[Top.i]
           mod == state["state.sls"][1].mods[Top.j]
       IN  stack' = stack
             \o <<Frame("run_lowstate", "entry", mod, Top.saltenv,
                        Top.pillar, <<>>, <<state>>)>>
    /\ UNCHANGED <<status, printed, renderer, calls, returned, ntexts, nctx>>

\* line 79: return state_count
ReturnInner ==
    /\ Running("count_inner_states")
    /\ Top.j = 0
    /\ Top.i > Len(Top.states)
    /\ stack' = SubSeq(stack, 1, Len(stack) - 2)
                \o <<Resume(Caller, Top.state_count)>>
    /\ returned' = returned \cup
         {[saltenv |-> Top.saltenv, states |-> Top.states,
           total |-> Top.state_count, made |-> Top.made]}
    /\ UNCHANGED <<status, printed, renderer, calls, ntexts, nctx>>

(***************************************************************************)
(* main and the __main__ block                                             *)
(***************************************************************************)
\* lines 87-88: run_lowstate(state_path=state), saltenv and pillar defaulted
MainRunLowstate ==
    /\ Running("main")
    /\ Top.i <= Len(LOW_STATES)
    /\ stack' = stack \o
         <<Frame("run_lowstate", "entry", LOW_STATES[Top.i], "base",
                 EmptyPillar, <<>>, <<>>)>>
    /\ UNCHANGED <<status, printed, renderer, calls, returned, ntexts, nctx>>

\* lines 89-95: the full lowstate of the next saltenv
MainShowLowstate ==
    /\ Running("main")
    /\ Top.i > Len(LOW_STATES)
    /\ Top.i <= Len(LOW_STATES) + Len(SALTENVS)
    /\ LET saltenv == SALTENVS[Top.i - Len(LOW_STATES)]
           cmd == LOWSTATE_CMD(saltenv)
       IN  \E res \in Answers(cmd) :
             /\ Executed(cmd, res, EmptyPillar, <<>>)
             /\ IF Raises(res)
                THEN /\ status' = "raising"
                     /\ stack' = stack
                ELSE /\ status' = status
                     /\ stack' = Below
                          \o <<[Top EXCEPT !.state_count = @ + Len(Local(res))]>>
                          \o <<Frame("count_inner_states", "loop", "", saltenv,
                                     EmptyPillar, Local(res), <<>>)>>
    /\ UNCHANGED <<printed, returned, ntexts, nctx>>

\* lines 96-97 and 102-103: return the total, print it
MainReturn ==
    /\ Running("main")
    /\ Top.i > Len(LOW_STATES) + Len(SALTENVS)
    /\ printed' = Append(printed, <<"Total planned states count:", Top.state_count>>)
    /\ status' = "exited"
    /\ stack' = <<>>
    /\ UNCHANGED <<renderer, calls, returned, ntexts, nctx>>

\* execute_command wrapped in "try: ... except: return 0" by its caller
UnwindCaught ==
    /\ status = "raising"
    /\ status' = "running"
    /\ IF Top.fn = "main"
       THEN stack' = Below \o <<[Top EXCEPT !.i = @ + 1]>>
       ELSE stack' = SubSeq(stack, 1, Len(stack) - 2) \o <<Resume(Caller, 0)>>
    /\ UNCHANGED <<printed, renderer, calls, returned, ntexts, nctx>>

\* an exception leaves the frame it reaches: no function has a handler
Unwind ==
    /\ status = "raising"
    /\ IF stack = <<>>
       THEN status' = "traceback" /\ stack' = stack
       ELSE status' = status /\ stack' = Below
    /\ UNCHANGED <<printed, renderer, calls, returned, ntexts, nctx>>

Next ==
    \/ MainRunLowstate
    \/ MainShowLowstate
    \/ MainReturn
    \/ Normalize
    \/ Render
    \/ ReturnRunLowstate
    \/ InnerNext
    \/ InnerCall
    \/ ReturnInner
    \/ Unwind

Spec == Init /\ [][Next]_vars

\* the interpreter always takes the next step of the running program
FairSpec == Spec /\ WF_vars(Next)

(***************************************************************************)
(* Properties of the scan.  The definitions below state what is claimed    *)
(* and read the histories; none of them is used by the actions above.      *)
(***************************************************************************)
\* the batch a call obtained, empty when the call raised
BatchOf(c) ==
    IF c.res.out.json /\ "local" \in DOMAIN c.res.out.doc
    THEN c.res.out.doc["local"]
    ELSE <<>>

BadOutput(c) == ~c.res.out.json \/ "local" \notin DOMAIN c.res.out.doc

BadOutputSeen == \E k \in 1..Len(calls) : BadOutput(calls[k])

\* a nested-module-invocation record
InvokesModule(state) ==
    "state.sls" \in DOMAIN state /\ state["state"] = "module"

ModsOf(state) == state["state.sls"][1].mods

RECURSIVE RenderedStates(_)
RenderedStates(log) ==
    IF log = <<>> THEN 0
    ELSE Len(BatchOf(Head(log))) + RenderedStates(Tail(log))

\* what count_inner_states returned for batch states under saltenv
Nested(saltenv, states) ==
    (CHOOSE r \in returned : r.saltenv = saltenv /\ r.states = states).total

RECURSIVE ChildTotals(_)
ChildTotals(cmds) ==
    IF cmds = <<>> THEN 0
    ELSE LET child == Local(renderer[Head(cmds)])
         IN  Len(child) + Nested(Head(cmds).saltenv, child)
             + ChildTotals(Tail(cmds))

TotalLine(n) == <<"Total planned states count:", n>>

\* C1: every batch counts len(B) + countNested(E, B), countNested being the sum
\* over the nested renders of len(child) + countNested(E, child); the total
\* printed is the sum of the lengths of all batches rendered during the scan.
TotalIsSumOfBatches ==
    /\ status = "exited" => printed = <<TotalLine(RenderedStates(calls))>>
    /\ \A r \in returned : r.total = ChildTotals(r.made)
    /\ \A k \in 1..Len(stack) :
         stack[k].fn = "run_lowstate" /\ stack[k].pc = "ret"
         => stack[k].state_count
              = Len(stack[k].states) + Nested(stack[k].saltenv, stack[k].states)

\* 2 outer records, one running a module of 4 plain records: 6 for os_setup
TotalIsSumOfBatchesWitness ==
    /\ status = "exited"
    /\ Len(calls) = 4
    /\ BatchOf(calls[1]) = <<rInvP, rPlain>>
    /\ BatchOf(calls[2]) = <<rPlain, rPlain, rGrain, rSalt>>
    /\ calls[2].depth = 2
    /\ printed = <<TotalLine(6 + Len(BatchOf(calls[3])) + Len(BatchOf(calls[4])))>>

IsPermutation(a, b) ==
    /\ Len(a) = Len(b)
    /\ \E p \in Permutations(1..Len(a)) : \A n \in 1..Len(a) : b[n] = a[p[n]]

\* C2: count_inner_states returns the same total for a batch and for any
\* permutation of it, under the same saltenv.
OrderIndependent ==
    \A r1 \in returned : \A r2 \in returned :
        r1.saltenv = r2.saltenv /\ IsPermutation(r1.states, r2.states)
        => r1.total = r2.total

\* the pillar a record declares: its second state.sls entry's, or none
OwnPillar(state) ==
    LET sls == state["state.sls"]
    IN  IF Len(sls) > 1 /\ "pillar" \in DOMAIN sls[2]
        THEN sls[2].pillar
        ELSE EmptyPillar

\* C3: the pillar of every nested render call is the one declared by the
\* record that made the call, the empty mapping when it declares none.
PillarFromRecordAlone ==
    \A k \in 1..Len(calls) :
        calls[k].by # <<>> => calls[k].pillar = OwnPillar(calls[k].by[1])

SAFE_DEVICE == DEV \o <<"s", "d", "a", "2">>

\* the context with every device-path string value replaced, nothing else
RECURSIVE Placeholdered(_)
RECURSIVE PlaceholderedItems(_)
PlaceholderedItems(m) ==
    IF m = <<>> THEN <<>>
    ELSE <<<<m[1][1], Placeholdered(m[1][2])>>>> \o PlaceholderedItems(Tail(m))
Placeholdered(v) ==
    IF IsStr(v)
    THEN (IF StartsAt(v.str, 1, DEV) THEN Str(SAFE_DEVICE) ELSE v)
    ELSE Map(PlaceholderedItems(v.map))

\* C4: the pillar text run_lowstate puts in the state.show_low_sls command is
\* the context with its device-path values replaced by /dev/sda2 and all else
\* unchanged.
DevicePathsReplaced ==
    Len(ntexts) >= 2 => ntexts[2] = Dumps(Placeholdered(nctx))

\* C5: once a salt-call process has exited non-zero, no total is returned or
\* printed.
NonZeroExitFails ==
    (\E k \in 1..Len(calls) : calls[k].res.rc # 0)
    => status # "exited" /\ printed = <<>>

\* C6: output that is not JSON or has no "local" key ends the scan: the call
\* is the last one made, the exception leaves every frame, nothing is printed.
BadOutputIsFatal ==
    /\ \A k \in 1..Len(calls) :
         BadOutput(calls[k])
         => /\ k = Len(calls)
            /\ printed = <<>>
            /\ status \in {"raising", "traceback"}
    /\ status = "traceback" => stack = <<>> /\ BadOutputSeen

\* a nested render, two run_lowstate frames deep, answered without "local"
BadOutputIsFatalWitness ==
    /\ status = "traceback"
    /\ calls[Len(calls)].depth = 2
    /\ calls[Len(calls)].res.out.json
    /\ Len(calls) > 1

RECURSIVE ExpectedRuns(_, _)
ExpectedRuns(saltenv, states) ==
    IF states = <<>> THEN <<>>
    ELSE (IF InvokesModule(Head(states))
          THEN [n \in 1..Len(ModsOf(Head(states)))
                  |-> <<ModsOf(Head(states))[n], saltenv>>]
          ELSE <<>>)
         \o ExpectedRuns(saltenv, Tail(states))

\* C8: count_inner_states renders, in order and under its own saltenv, one
\* module per name in the mods of each record that has "state.sls" and whose
\* state is "module", and nothing else; without such a record it returns 0.
InnerCallsExact ==
    \A r \in returned :
        /\ [n \in 1..Len(r.made) |-> <<r.made[n].state_path, r.made[n].saltenv>>]
             = ExpectedRuns(r.saltenv, r.states)
        /\ \A n \in 1..Len(r.made) : r.made[n].fun = "state.show_low_sls"
        /\ (\A n \in 1..Len(r.states) : ~InvokesModule(r.states[n]))
             => r.total = 0 /\ r.made = <<>>

\* a record with two mods under predeployment, and a batch whose records have
\* only the key or only the state
InnerCallsExactWitness ==
    /\ \E r \in returned :
         /\ r.states = <<rInv2>>
         /\ r.saltenv = "predeployment"
         /\ Len(r.made) = 2
    /\ \E r \in returned :
         /\ r.states = <<rPlain, rPlain, rGrain, rSalt>>
         /\ r.total = 0

\* the commands count_inner_states runs for states, pillar carried as it goes
RECURSIVE Issued(_, _, _)
Issued(saltenv, states, pillar) ==
    IF states = <<>> THEN {}
    ELSE IF InvokesModule(Head(states))
    THEN LET p == NextPillar(pillar, Head(states))
             mods == ModsOf(Head(states))
         IN  {LOWSTATE_SLS_CMD(mods[n], saltenv, Normalized(p)) : n \in 1..Len(mods)}
             \cup Issued(saltenv, Tail(states), p)
    ELSE Issued(saltenv, Tail(states), pillar)

\* c leads to d: the batch answered to c makes the scan run d
CmdEdges ==
    UNION {{<<c, d>> : d \in Issued(c.saltenv, BatchOf([res |-> renderer[c]]),
                                    EmptyPillar)}
           : c \in DOMAIN renderer}

\* the modules named by the module-invocation records of a batch
RECURSIVE Referenced(_)
Referenced(states) ==
    IF states = <<>> THEN {}
    ELSE (IF InvokesModule(Head(states))
          THEN {ModsOf(Head(states))[n] : n \in 1..Len(ModsOf(Head(states)))}
          ELSE {})
         \cup Referenced(Tail(states))

\* m refers to n: some batch rendered for module m has a record naming n
ModRefs ==
    UNION {{<<c.state_path, n>> : n \in Referenced(BatchOf([res |-> renderer[c]]))}
           : c \in DOMAIN renderer}

\* the pairs joined by a path of R
RECURSIVE Closure(_, _)
Closure(R, S) ==
    LET T == S \cup {<<q[1][1], q[2][2]>> : q \in {p \in S \X R : p[1][2] = p[2][1]}}
    IN  IF T = S THEN S ELSE Closure(R, T)

Cyclic(R) == \E e \in Closure(R, R) : e[1] = e[2]

\* some rendered module refers to itself, directly or through other modules
ModuleCyclic == Cyclic(ModRefs)

\* some render command leads to the very same command again
RecurringRender == Cyclic(CmdEdges)

\* C9 as stated: when a rendered module refers to itself, directly or through
\* other modules, the scan never returns a total.
SelfInvokingNeverTotals == status = "exited" => ~ModuleCyclic

\* C9 amended: when a render command (module, saltenv, normalised pillar)
\* leads to the same command again, the scan never returns a total.
RepeatedRenderNeverTotals == status = "exited" => ~RecurringRender

\* the recursion has gone as deep as the model lets it, and is still running
RepeatedRenderNeverTotalsWitness ==
    /\ status = "running"
    /\ Depth = MaxDepth
    /\ Top.fn = "count_inner_states" /\ Top.j >= 1
    /\ RecurringRender

RECURSIVE References(_)
References(log) ==
    IF log = <<>> THEN 0
    ELSE Len(ExpectedRuns("", BatchOf(Head(log)))) + References(Tail(log))

\* C10: with well-formed output and no module referring to itself, the scan
\* returns, having rendered each root and each module reference once.
AcyclicScanTerminates ==
    /\ <>(status = "exited" \/ status = "traceback" \/ ModuleCyclic)
    /\ [](status = "exited" /\ ~ModuleCyclic
          => /\ ~BadOutputSeen
             /\ printed # <<>>
             /\ Len(calls) = Len(LOW_STATES) + Len(SALTENVS) + References(calls))

\* os_setup rendered under a full lowstate, and foo under os_setup
AcyclicScanTerminatesWitness ==
    /\ status = "exited"
    /\ ~ModuleCyclic
    /\ \E k \in 1..Len(calls) :
         calls[k].depth = 2 /\ calls[k - 1].cmd.state_path = "os_setup"
            /\ calls[k - 1].depth = 1 /\ calls[k - 1].by # <<>>

(***************************************************************************)
(* The normalisation experiment: a context is serialized, then the         *)
(* substitution is applied to the text, and applied again to its result.   *)
(***************************************************************************)
Tokens == {DEV, <<Q>>, <<BS>>, <<"x">>, <<"s", "d", "a", "2">>}

RECURSIVE TokenStrings(_)
TokenStrings(n) ==
    IF n = 0 THEN {<<>>}
    ELSE LET shorter == TokenStrings(n - 1)
         IN  shorter \cup {t \o s : t \in Tokens, s \in shorter}

Values == TokenStrings(MaxTokens)

KEY == <<"k">>

\* one value under a key, one level down, as a key, or after another entry
Contexts ==
    {Map(<<>>)}
    \cup {Map(<<<<KEY, Str(v)>>>>) : v \in Values}
    \cup {Map(<<<<KEY, Map(<<<<KEY, Str(v)>>>>)>>>>) : v \in Values}
    \cup {Map(<<<<v, Str(KEY)>>>>) : v \in Values}
    \cup {Map(<<<<KEY, Str(DEV \o <<"x">>)>>, <<KEY, Str(v)>>>>) : v \in Values}

MainIdle ==
    /\ stack = <<>>
    /\ status = "idle"
    /\ printed = <<>>
    /\ renderer = <<>>
    /\ calls = <<>>
    /\ returned = {}

InitNorm ==
    /\ MainIdle
    /\ nctx \in Contexts
    /\ ntexts = <<>>

\* pillar = json.dumps(pillar)
NormDumps ==
    /\ ntexts = <<>>
    /\ ntexts' = <<Dumps(nctx)>>
    /\ UNCHANGED <<stack, status, printed, renderer, calls, returned, nctx>>

\* pillar = re.sub(...), and the same substitution on its own result
NormSub ==
    /\ Len(ntexts) \in {1, 2}
    /\ ntexts' = Append(ntexts, ReSub(ntexts[Len(ntexts)]))
    /\ UNCHANGED <<stack, status, printed, renderer, calls, returned, nctx>>

NextNorm == NormDumps \/ NormSub

SpecNorm == InitNorm /\ [][NextNorm]_vars

\* C7: applying the device-path substitution to the serialized context twice
\* gives the same text as applying it once.
NormalizationIdempotent ==
    Len(ntexts) = 3 => ntexts[3] = ntexts[2]

\* a context holding a device path, whose first pass changed the text
NormalizationIdempotentWitness ==
    /\ Len(ntexts) = 3
    /\ ntexts[2] # ntexts[1]
    /\ nctx = Map(<<<<KEY, Str(DEV \o <<"x">>)>>>>)
====
